---- MODULE Spec2Model ----
(***************************************************************************)
(* Cancel-Letter-Generator: the template letter generator                  *)
(* (services/geminiService.ts), the network-backed generator that falls    *)
(* back to it, and the debounced suggestion fetch and the form            *)
(* submission of the App component.                                        *)
(*                                                                         *)
(* Text is modelled as a sequence of string chunks; the chunk NL is the    *)
(* newline character.  A template literal is the concatenation of its      *)
(* literal chunks and of the interpolated values.  A service name, whose   *)
(* length the App reads, is kept character by character.                   *)
(***************************************************************************)
EXTENDS Integers, Sequences, FiniteSets, TLC

VARIABLES
  data,    \* the LetterData of the request
  now,     \* the environment's clock, what new Date() reads
  last,    \* the latest call of getTemplateLetter: when, and what it returned
  pinned,  \* an earlier call of getTemplateLetter kept for comparison
  apiKey,  \* process.env.API_KEY
  pc,      \* where the call of generateCancellationLetter stands
  ext,     \* what the external generation did
  result,  \* how the promise of generateCancellationLetter settled
  elapsed,     \* milliseconds since the App was mounted
  timer,       \* the timer the live effect of the App set
  pending,     \* the timers set and neither fired nor cleared
  cleared,     \* the timers cleared while pending
  nextId,      \* the id the next setTimeout returns
  lastChange,  \* when the service name last changed
  calls,       \* the calls of suggestCancellationReason, in order
  inflight,    \* the calls of suggestCancellationReason not yet settled
  responses,   \* the values setSuggestions was given, in order, each with its call
  suggestions, \* the suggestions the App shows
  req,             \* the LetterData handleSubmit passed to the generator
  isGenerating,    \* the App's isGenerating state
  error,           \* the App's error state
  generatedLetter  \* the App's generatedLetter state

tmplVars == <<last, pinned>>
genVars == <<apiKey, pc, ext, result>>
dbVars == <<elapsed, timer, pending, cleared, nextId, lastChange, calls>>
sugVars == <<inflight, responses, suggestions>>
subVars == <<req, isGenerating, error, generatedLetter>>
vars == <<data, now, last, pinned, apiKey, pc, ext, result,
          elapsed, timer, pending, cleared, nextId, lastChange, calls,
          inflight, responses, suggestions,
          req, isGenerating, error, generatedLetter>>

NL == "\n"

----------------------------------------------------------------------------
(* Bounds of the model *)

\* the wall clock runs from tick 0 to tick MaxTick
MaxTick == 3
\* wall-clock ticks in one calendar day
TicksPerDay == 2
\* the timer clock advances QuantumMs milliseconds at a time, MaxQuanta times
QuantumMs == 500
MaxQuanta == 5
\* the number of timers the App sets
MaxTimers == 4

\* the delay of the debounce timer
TimerMs == 1000

----------------------------------------------------------------------------
(* types.ts *)

FORMAL == "Formal"
FIRM == "Firm & Legalistic"
FRIENDLY == "Polite & Friendly"
DIRECT == "Direct & Concise"

Tone == {FORMAL, FIRM, FRIENDLY, DIRECT}

UserDetails ==
  [fullName : {<<>>, <<"Jane Doe">>},
   email    : {<<>>, <<"jane@x.com">>},
   address  : {<<>>, <<"1 Main St">>, <<"1 Main St", NL, "Springfield">>},
   phone    : {<<>>, <<"555-0100">>}]

SubscriptionDetails ==
  [serviceName        : {<<>>, <<"H", "u", "l", "u">>},
   accountNumber      : {<<>>, <<"A-1">>},
   subscriptionPlan   : {<<>>, <<"Premium">>},
   cancellationReason : {<<>>, <<"Too expensive">>},
   effectiveDate      : {<<"2024-01-01">>}]

LetterData == [user : UserDetails, subscription : SubscriptionDetails, tone : Tone]

----------------------------------------------------------------------------
(* Text helpers used by the properties *)

RECURSIVE LinesAcc(_, _, _)
LinesAcc(rest, cur, acc) ==
  IF rest = <<>> THEN Append(acc, cur)
  ELSE IF Head(rest) = NL
       THEN LinesAcc(Tail(rest), <<>>, Append(acc, cur))
       ELSE LinesAcc(Tail(rest), Append(cur, Head(rest)), acc)

\* the lines of a text: what text.split('\n') gives
Lines(t) == LinesAcc(t, <<>>, <<>>)

\* the positions at which sub occurs in t
Occurrences(sub, t) ==
  {i \in 1..(Len(t) - Len(sub) + 1) : SubSeq(t, i, i + Len(sub) - 1) = sub}

Contains(sub, t) == Occurrences(sub, t) # {}

\* the positions of the lines of ls that equal l
LineIdx(ls, l) == {i \in 1..Len(ls) : ls[i] = l}

\* the positions of the lines of ls that start with the chunk c
LineStartIdx(ls, c) == {i \in 1..Len(ls) : ls[i] # <<>> /\ ls[i][1] = c}

Min(S) == CHOOSE x \in S : \A y \in S : x <= y

RemoveAt(s, i) == SubSeq(s, 1, i - 1) \o SubSeq(s, i + 1, Len(s))

----------------------------------------------------------------------------
(* getTemplateLetter *)

\* a || b on strings: the empty string is falsy
OrElse(a, b) == IF a = <<>> THEN b ELSE a

\* the calendar day of a time value
DayOf(t) == t \div TicksPerDay

\* faulty variant: toLocaleString() in place of toLocaleDateString(), which keeps
\* the time of day
ToLocaleString(t) ==
  <<"1/", ToString(DayOf(t) + 1), "/2024, ", ToString(t % TicksPerDay), ":00:00">>

\* Date.prototype.toLocaleDateString(): the date of a time value in the
\* runtime's short date format, the time of day dropped
ToLocaleDateString(t) == <<"1/", ToString(DayOf(t) + 1), "/2024">>

FirmText == "Please be advised that this request is final. I expect a written confirmation of this cancellation and an assurance that no further charges will be applied to my account. If any further unauthorized billing occurs, I will be forced to escalate this matter."
FriendlyText == "I have enjoyed using your service, but I have decided to cancel at this time. Thank you for your support and assistance with this request."
DirectText == "Please process this request immediately. No further communication is required other than a confirmation of termination."

\* faulty variant: the Direct branch is lost
ToneAdjustmentDirectLost(tone) ==
  IF tone = FIRM THEN <<NL, FirmText>>
  ELSE IF tone = FRIENDLY THEN <<NL, FriendlyText>>
  ELSE <<>>

ToneAdjustment(tone) ==
  IF tone = FIRM THEN <<NL, FirmText>>
  ELSE IF tone = FRIENDLY THEN <<NL, FriendlyText>>
  ELSE IF tone = DIRECT THEN <<NL, DirectText>>
  ELSE <<>>

SenderBlock(user) ==
  user.fullName \o <<NL>>
  \o OrElse(user.address, <<>>) \o <<NL>>
  \o user.email \o <<NL>>
  \o OrElse(user.phone, <<>>) \o <<NL>>

DateLine(t) == <<"Date: ">> \o ToLocaleDateString(t)

SubjectLine(subscription) ==
  <<"RE: Cancellation of ">> \o subscription.serviceName \o <<" Subscription">>

\* faulty variant: ?? in place of ||, which keeps the empty string
AccountLineNullish(subscription) ==
  <<"Account Number: ">> \o subscription.accountNumber

AccountLine(subscription) ==
  <<"Account Number: ">> \o OrElse(subscription.accountNumber, <<"N/A">>)

SalutationLine(subscription) ==
  <<"To the Customer Service Team at ">> \o subscription.serviceName \o <<",">>

BodyLine(subscription) ==
  <<"I am writing to formally request the cancellation of my ">>
  \o OrElse(subscription.subscriptionPlan, <<>>)
  \o <<" subscription, effective ">> \o subscription.effectiveDate \o <<".">>

ReasonPart(subscription) ==
  IF subscription.cancellationReason # <<>>
  THEN <<"Reason for cancellation: ">> \o subscription.cancellationReason \o <<NL>>
  ELSE <<>>

BillingText == "Please stop all recurring payments associated with this account immediately. "

\* faulty variant: a line break after the billing instruction
BillingPartBlankLine(tone) == <<BillingText, NL>> \o ToneAdjustment(tone)

BillingPart(tone) == <<BillingText>> \o ToneAdjustment(tone)

ThanksText == "Thank you for your prompt attention to this matter."

\* faulty variant: the blank line under "Sincerely," is lost
ClosingPartNoBlank(user) == <<ThanksText, NL, NL, "Sincerely,", NL>> \o user.fullName

ClosingPart(user) == <<ThanksText, NL, NL, "Sincerely,", NL, NL>> \o user.fullName

\* getTemplateLetter(data), called at time t
GetTemplateLetter(d, t) ==
  SenderBlock(d.user) \o <<NL>>
  \o DateLine(t) \o <<NL, NL>>
  \o SubjectLine(d.subscription) \o <<NL>>
  \o AccountLine(d.subscription) \o <<NL, NL>>
  \o SalutationLine(d.subscription) \o <<NL, NL>>
  \o BodyLine(d.subscription) \o <<NL, NL>>
  \o ReasonPart(d.subscription) \o <<NL>>
  \o BillingPart(d.tone) \o <<NL, NL>>
  \o ClosingPart(d.user)

----------------------------------------------------------------------------
(* generateCancellationLetter *)

\* process.env.API_KEY: undefined, or a string
KeyUnset == [set |-> FALSE, value |-> <<>>]
ApiKeys ==
  {KeyUnset,
   [set |-> TRUE, value |-> <<>>],
   [set |-> TRUE, value |-> <<"undefined">>],
   [set |-> TRUE, value |-> <<"AIza-key">>]}

\* !apiKey || apiKey === 'undefined'
KeyMissing(k) == ~k.set \/ k.value = <<>> \/ k.value = <<"undefined">>

\* what ai.models.generateContent does: it throws or rejects, or it resolves
\* with a response whose text is undefined, empty or a letter
AiLetter == <<"Dear Hulu,", NL, "please cancel my subscription.">>
Responses ==
  {[threw |-> TRUE,  hasText |-> FALSE, text |-> <<>>],
   [threw |-> FALSE, hasText |-> FALSE, text |-> <<>>],
   [threw |-> FALSE, hasText |-> TRUE,  text |-> <<>>],
   [threw |-> FALSE, hasText |-> TRUE,  text |-> AiLetter]}

NoResponse == [threw |-> FALSE, hasText |-> FALSE, text |-> <<>>]
NoExt == [step |-> "none", response |-> NoResponse]

Pending == [kind |-> "pending", value |-> <<>>]
Resolved(v) == [kind |-> "resolved", value |-> v]
Rejected == [kind |-> "rejected", value |-> <<>>]

----------------------------------------------------------------------------
(* The template generator called repeatedly while the clock runs *)

NoCall == [called |-> FALSE, at |-> 0, out |-> <<>>]

\* the timer of the effect the App runs when it is mounted
MountTimer == [id |-> 0, name |-> <<>>, due |-> TimerMs]

\* the debounce state right after the App is mounted with an empty form
DebounceIdle ==
  /\ elapsed = 0
  /\ timer = MountTimer
  /\ pending = {MountTimer}
  /\ cleared = {}
  /\ nextId = 1
  /\ lastChange = 0
  /\ calls = <<>>

\* the error state when there is no error: null
NoError == <<>>

\* the rest of the App's state right after it is mounted
AppIdle ==
  /\ inflight = {}
  /\ responses = <<>>
  /\ suggestions = <<>>
  /\ req = data
  /\ isGenerating = FALSE
  /\ error = NoError
  /\ generatedLetter = <<>>

InitTemplate ==
  /\ data \in LetterData
  /\ now = 0
  /\ last = NoCall
  /\ pinned = NoCall
  /\ apiKey = KeyUnset
  /\ pc = "idle"
  /\ ext = NoExt
  /\ result = Pending
  /\ DebounceIdle
  /\ AppIdle

\* the environment's clock advances
Tick ==
  /\ now < MaxTick
  /\ now' = now + 1
  /\ UNCHANGED <<data, last, pinned, genVars, dbVars, sugVars, subVars>>

\* getTemplateLetter(data) is called; the observer may keep the call to
\* compare it with a later one
CallTemplate ==
  \E keep \in BOOLEAN :
    LET call == [called |-> TRUE, at |-> now, out |-> GetTemplateLetter(data, now)]
    IN /\ last' = call
       /\ pinned' = IF keep THEN call ELSE pinned
       /\ UNCHANGED <<data, now, genVars, dbVars, sugVars, subVars>>

\* getTemplateLetter is called for another request: it returns a letter and
\* leaves no trace
CallTemplateOther ==
  \E t \in Tone \ {data.tone} :
    /\ GetTemplateLetter([data EXCEPT !.tone = t], now) # <<>>
    /\ UNCHANGED vars

NextTemplate == Tick \/ CallTemplate \/ CallTemplateOther

SpecTemplate == InitTemplate /\ [][NextTemplate]_vars

----------------------------------------------------------------------------
(* generateCancellationLetter: the call *)

\* whether the try block returns response.text: no throw, and a truthy text
TextReturned(r) == ~r.threw /\ r.hasText /\ r.text # <<>>

\* faulty variant: return response.text, without the fallback
OnSettleNoFallback(r, tmpl) == IF r.threw THEN tmpl ELSE r.text

\* the try/catch around the request: response.text || getTemplateLetter(data),
\* and getTemplateLetter(data) in the catch block
OnSettle(r, tmpl) == IF TextReturned(r) THEN r.text ELSE tmpl

InitGenerate ==
  /\ data \in LetterData
  /\ now = 0
  /\ last = NoCall
  /\ pinned = NoCall
  /\ apiKey \in ApiKeys
  /\ pc = "idle"
  /\ ext = NoExt
  /\ result = Pending
  /\ DebounceIdle
  /\ AppIdle

\* generateCancellationLetter(data) up to its await: the key check with the
\* early return of the template, then new GoogleGenAI({ apiKey }), which is
\* outside the try block, then the request
GenCallStep(d) ==
  /\ pc = "idle"
  /\ IF KeyMissing(apiKey)
     THEN /\ last' = [called |-> TRUE, at |-> now, out |-> GetTemplateLetter(d, now)]
          /\ result' = Resolved(last'.out)
          /\ ext' = [step |-> "nokey", response |-> NoResponse]
          /\ pc' = "done"
     ELSE \E ctorThrows \in BOOLEAN :
            IF ctorThrows
            THEN /\ result' = Rejected
                 /\ ext' = [step |-> "ctor", response |-> NoResponse]
                 /\ pc' = "done"
                 /\ UNCHANGED last
            ELSE /\ pc' = "awaiting"
                 /\ ext' = [step |-> "request", response |-> NoResponse]
                 /\ UNCHANGED <<result, last>>

\* generateCancellationLetter(data) is called
GenCall ==
  /\ GenCallStep(data)
  /\ UNCHANGED <<data, now, pinned, apiKey, dbVars, sugVars, subVars>>

\* the request settles and generateCancellationLetter resumes after its await
GenSettleStep(d) ==
  /\ pc = "awaiting"
  /\ \E r \in Responses :
       LET tmpl == GetTemplateLetter(d, now)
       IN /\ ext' = [step |-> "settled", response |-> r]
          /\ result' = Resolved(OnSettle(r, tmpl))
          /\ last' = IF TextReturned(r) THEN last
                     ELSE [called |-> TRUE, at |-> now, out |-> tmpl]
  /\ pc' = "done"

\* the request of generateCancellationLetter(data) settles
GenSettle ==
  /\ GenSettleStep(data)
  /\ UNCHANGED <<data, now, pinned, apiKey, dbVars, sugVars, subVars>>

NextGenerate == Tick \/ GenCall \/ GenSettle

SpecGenerate == InitGenerate /\ [][NextGenerate]_vars

\* the external generation failed in one of the ways the code handles
FellBack ==
  \/ ext.step = "nokey"
  \/ ext.step = "settled" /\ ~TextReturned(ext.response)

\* C1: when the key is missing, the request throws or the response text is
\* empty or absent, generateCancellationLetter resolves with the text
\* getTemplateLetter gives for the same request at that moment; it resolves
\* with something else only for a non-empty response text, which it returns.
C1_FallsBackToTemplate ==
  pc = "done" =>
    /\ FellBack => /\ last.called
                   /\ result = Resolved(GetTemplateLetter(data, last.at))
    /\ (ext.step = "settled" /\ TextReturned(ext.response))
         => result = Resolved(ext.response.text) /\ ~last.called
    /\ (result.kind = "resolved" /\ last.called) => result.value = last.out

C1_Witness ==
  /\ pc = "done"
  /\ ext.step = "settled"
  /\ ext.response.hasText /\ ext.response.text = <<>>
  /\ result = Resolved(GetTemplateLetter(data, last.at))

\* C2: every call of generateCancellationLetter that has finished resolved
\* with a non-empty letter, whatever step of the external path failed; it
\* never rejects.
C2_NeverRejects ==
  pc = "done" => result.kind = "resolved" /\ result.value # <<>>

----------------------------------------------------------------------------
(* App: the debounced suggestion fetch *)

\* the form of a freshly mounted App
InitialForm ==
  [user |-> [fullName |-> <<>>, email |-> <<>>, phone |-> <<>>, address |-> <<>>],
   subscription |-> [serviceName |-> <<>>, accountNumber |-> <<>>,
                     subscriptionPlan |-> <<>>, cancellationReason |-> <<>>,
                     effectiveDate |-> <<"2024-01-01">>],
   tone |-> FORMAL]

\* the values the user gives the service name field
TypedNames ==
  {<<>>, <<"H">>, <<"H", "u">>, <<"H", "u", "l">>, <<"H", "u", "l", "u">>}

\* faulty variant: the effect returns no cleanup
ClearTimeoutLost(ts, t) == ts

\* the cleanup of the effect: clearTimeout(timer)
ClearTimeout(ts, t) == ts \ {t}

\* fetchSuggestions of the render whose service name is name: whether it
\* calls suggestCancellationReason
FetchGuard(name) == Len(name) > 2

\* the timer callback of the render whose service name is name: whether it
\* calls fetchSuggestions
TimerGuard(name) == name # <<>>

\* suggestCancellationReason

DefaultReasons ==
  << <<"Cost is too high">>, <<"No longer using the service">>,
     <<"Found a better alternative">>, <<"Moving to a different location">> >>

\* a chunk that /^\d+\.\s*/ matches
Numberings == {"1. ", "2. ", "3. ", "4. ", "5. "}

\* a text the model answers with for a service name: a numbered list with an
\* empty and a blank line in it
ListFor(name) ==
  <<"1. ", "Price of ">> \o name \o <<NL, NL, "2. ", "Rarely used", " ", NL, " ", NL,
    "3. ", "Found a better offer", NL, "4. ", "Moving", NL, "5. ", "Other">>

\* what ai.models.generateContent does for the prompt of a service name
SuggestResponses(name) ==
  {[threw |-> TRUE,  hasText |-> FALSE, text |-> <<>>],
   [threw |-> FALSE, hasText |-> FALSE, text |-> <<>>],
   [threw |-> FALSE, hasText |-> TRUE,  text |-> ListFor(name)]}

\* String.prototype.trim on a line: the blank chunks at both ends go
RECURSIVE TrimLeft(_)
TrimLeft(l) == IF l # <<>> /\ Head(l) = " " THEN TrimLeft(Tail(l)) ELSE l
RECURSIVE TrimRight(_)
TrimRight(l) ==
  IF l # <<>> /\ l[Len(l)] = " " THEN TrimRight(SubSeq(l, 1, Len(l) - 1)) ELSE l
Trim(l) == TrimRight(TrimLeft(l))

\* line.replace(/^\d+\.\s*/, '')
StripNumber(l) == IF l # <<>> /\ Head(l) \in Numberings THEN Tail(l) ELSE l

\* text.split('\n').filter(line => line.trim().length > 0)
\*     .map(line => line.replace(/^\d+\.\s*/, '').trim())
ParseLines(text) ==
  LET kept == SelectSeq(Lines(text), LAMBDA l : Trim(l) # <<>>)
  IN [i \in 1..Len(kept) |-> Trim(StripNumber(kept[i]))]

\* what suggestCancellationReason returns once its request has settled
SuggestReturn(r) ==
  IF r.threw THEN DefaultReasons
  ELSE LET lines == ParseLines(IF r.hasText THEN r.text ELSE <<>>)
       IN IF Len(lines) > 0
          THEN SubSeq(lines, 1, IF Len(lines) < 4 THEN Len(lines) ELSE 4)
          ELSE DefaultReasons

InitDebounce ==
  /\ data = InitialForm
  /\ now = 0
  /\ last = NoCall
  /\ pinned = NoCall
  /\ apiKey \in ApiKeys
  /\ pc = "idle"
  /\ ext = NoExt
  /\ result = Pending
  /\ DebounceIdle
  /\ AppIdle

\* handleSubChange for the service name field, the render that follows and
\* the effect of that render: the cleanup of the previous effect clears its
\* timer, and the effect sets a new one
ChangeServiceName ==
  /\ nextId < MaxTimers
  /\ \E v \in TypedNames \ {data.subscription.serviceName} :
       LET t == [id |-> nextId, name |-> v, due |-> elapsed + TimerMs]
       IN /\ data' = [data EXCEPT !.subscription.serviceName = v]
          /\ pending' = ClearTimeout(pending, timer) \cup {t}
          /\ cleared' = cleared \cup (pending \ ClearTimeout(pending, timer))
          /\ timer' = t
  /\ nextId' = nextId + 1
  /\ lastChange' = elapsed
  /\ UNCHANGED <<now, tmplVars, genVars, elapsed, calls, sugVars, subVars>>

\* handleSubChange for another field: the service name and fetchSuggestions
\* are the same in the render that follows, so the effect does not run again
ChangeAccountNumber ==
  /\ \E v \in {<<>>, <<"A-1">>} \ {data.subscription.accountNumber} :
       data' = [data EXCEPT !.subscription.accountNumber = v]
  /\ UNCHANGED <<now, tmplVars, genVars, dbVars, sugVars, subVars>>

\* a timer that is due fires: its callback calls fetchSuggestions when the
\* service name of its render is non-empty, and fetchSuggestions calls
\* suggestCancellationReason when that name has more than 2 characters
TimerFire ==
  /\ \E t \in pending :
       /\ elapsed >= t.due
       /\ pending' = pending \ {t}
       /\ IF TimerGuard(t.name) /\ FetchGuard(t.name)
          THEN /\ calls' = Append(calls, [name |-> t.name, at |-> elapsed, timer |-> t.id])
               /\ IF KeyMissing(apiKey)
                  THEN \* resolved without a request: applied before any other event
                       /\ suggestions' = DefaultReasons
                       /\ responses' = Append(responses,
                                               [call |-> Len(calls'), value |-> DefaultReasons])
                       /\ UNCHANGED inflight
                  ELSE /\ inflight' = inflight \cup {Len(calls')}
                       /\ UNCHANGED <<responses, suggestions>>
          ELSE UNCHANGED <<calls, sugVars>>
  /\ UNCHANGED <<data, now, tmplVars, genVars, elapsed, timer, cleared, nextId, lastChange,
                 subVars>>

\* the request of a call of suggestCancellationReason settles, in any order
\* among the calls in flight, and fetchSuggestions resumes after its await:
\* setSuggestions(sugs)
SuggestSettle ==
  /\ \E i \in inflight :
       \E r \in SuggestResponses(calls[i].name) :
         /\ suggestions' = SuggestReturn(r)
         /\ responses' = Append(responses, [call |-> i, value |-> SuggestReturn(r)])
         /\ inflight' = inflight \ {i}
  /\ UNCHANGED <<data, now, tmplVars, genVars, dbVars, subVars>>

\* time passes
Elapse ==
  /\ elapsed < MaxQuanta * QuantumMs
  /\ elapsed' = elapsed + QuantumMs
  /\ UNCHANGED <<data, now, tmplVars, genVars, timer, pending, cleared, nextId, lastChange, calls,
                 sugVars, subVars>>

NextDebounce ==
  ChangeServiceName \/ ChangeAccountNumber \/ TimerFire \/ Elapse \/ SuggestSettle

SpecDebounce == InitDebounce /\ [][NextDebounce]_vars

\* C10: each call of suggestCancellationReason is made for the current
\* service name, at least TimerMs milliseconds after that name was last
\* changed and only for a name of more than 2 characters, and never by a
\* timer that a change of the service name cleared.
C10_Debounced ==
  [][Len(calls') # Len(calls) =>
       LET c == calls'[Len(calls')]
       IN /\ Len(calls') = Len(calls) + 1
          /\ c.name = data.subscription.serviceName
          /\ c.at - lastChange >= TimerMs
          /\ Len(c.name) > 2
          /\ \A t \in cleared : t.id # c.timer]_vars

C10_Witness ==
  /\ calls # <<>>
  /\ \E t \in cleared : Len(t.name) > 2 /\ t.name # data.subscription.serviceName
  /\ \E t \in cleared : t.due <= elapsed

----------------------------------------------------------------------------
(* App: handleSubmit *)

\* the forms the browser lets the user submit: the required full name and
\* service name are filled; the form has no phone field
SubmitForms ==
  {d \in LetterData :
     /\ d.user.fullName # <<>> /\ d.subscription.serviceName # <<>>
     /\ d.user.phone = <<>> /\ d.user.email # <<>>
     /\ d.subscription.accountNumber = <<>> /\ d.subscription.subscriptionPlan = <<>>}

ErrorMessage == <<"Unable to process request. Please try again.">>

\* what the user types into the letter's textarea
EditedLetter == <<"Dear Hulu,", NL, "cancel it.">>

\* faulty variant: setIsGenerating(false) at the end of the try block, not
\* in a finally block
IsGeneratingAfterNoFinally(res) == res.kind = "rejected"

\* isGenerating once handleSubmit has finished: the finally block
IsGeneratingAfter(res) == FALSE

\* generatedLetter once handleSubmit has finished: setGeneratedLetter(letter)
\* in the try block
LetterAfter(res, letter) == IF res.kind = "resolved" THEN res.value ELSE letter

\* error once handleSubmit has finished: setError in the catch block
ErrorAfter(res, err) == IF res.kind = "rejected" THEN ErrorMessage ELSE err

InitSubmit ==
  /\ data \in SubmitForms
  /\ now = 0
  /\ last = NoCall
  /\ pinned = NoCall
  /\ apiKey \in ApiKeys
  /\ pc = "idle"
  /\ ext = NoExt
  /\ result = Pending
  /\ DebounceIdle
  /\ AppIdle

\* the user picks another tone
SetTone ==
  /\ \E t \in Tone \ {data.tone} : data' = [data EXCEPT !.tone = t]
  /\ UNCHANGED <<now, tmplVars, genVars, dbVars, sugVars, subVars>>

\* the user edits the letter shown
EditLetter ==
  /\ generatedLetter # <<>>
  /\ generatedLetter # EditedLetter
  /\ generatedLetter' = EditedLetter
  /\ UNCHANGED <<data, now, tmplVars, genVars, dbVars, sugVars, req, isGenerating, error>>

\* handleSubmit up to its await: the submit button is disabled while
\* isGenerating; the call of generateCancellationLetter runs to its own await
\* or return
HandleSubmit ==
  /\ ~isGenerating
  /\ isGenerating' = TRUE
  /\ error' = NoError
  /\ req' = data
  /\ GenCallStep(data)
  /\ UNCHANGED <<data, now, pinned, apiKey, dbVars, sugVars, generatedLetter>>

\* the request of the generator settles while handleSubmit waits
SubmitSettle ==
  /\ GenSettleStep(req)
  /\ UNCHANGED <<data, now, pinned, apiKey, dbVars, sugVars, subVars>>

\* handleSubmit resumes after its await with the settled promise: try,
\* catch and finally
SubmitFinish ==
  /\ pc = "done"
  /\ generatedLetter' = LetterAfter(result, generatedLetter)
  /\ error' = ErrorAfter(result, error)
  /\ isGenerating' = IsGeneratingAfter(result)
  /\ pc' = "idle"
  /\ ext' = NoExt
  /\ result' = Pending
  /\ UNCHANGED <<data, now, tmplVars, apiKey, dbVars, sugVars, req>>

NextSubmit == SetTone \/ EditLetter \/ HandleSubmit \/ SubmitSettle \/ SubmitFinish \/ Tick

SpecSubmit == InitSubmit /\ [][NextSubmit]_vars

\* C12: isGenerating is true exactly while a submission is under way;
\* handleSubmit starts by clearing the error; and when it finishes,
\* isGenerating is false and either the promise resolved, generatedLetter is
\* the returned letter and error is left alone, or the promise rejected,
\* error is the failure message and generatedLetter is left alone.
C12_SubmitLifecycle ==
  /\ [](isGenerating <=> pc # "idle")
  /\ [][(pc = "idle" /\ pc' # "idle") => (isGenerating' /\ error' = NoError)]_vars
  /\ [][(pc = "done" /\ pc' = "idle") =>
          /\ ~isGenerating'
          /\ \/ /\ result.kind = "resolved"
                /\ generatedLetter' = result.value
                /\ error' = error /\ error' = NoError
             \/ /\ result.kind = "rejected"
                /\ error' = ErrorMessage
                /\ generatedLetter' = generatedLetter]_vars

C12_Witness ==
  /\ ~isGenerating
  /\ pc = "idle"
  /\ error = ErrorMessage
  /\ generatedLetter # <<>>
  /\ generatedLetter # EditedLetter

----------------------------------------------------------------------------
(* Properties of the template letter *)

\* the addendum paragraph of a tone other than Formal
AddendumOf(tone) ==
  CASE tone = FIRM -> FirmText
    [] tone = FRIENDLY -> FriendlyText
    [] tone = DIRECT -> DirectText

ReasonLabel == "Reason for cancellation: "

\* C3: with an empty cancellationReason the letter holds no "Reason for
\* cancellation:" text and no empty line stands in its place (the body
\* paragraph, one blank line, the billing instruction); with a non-empty one
\* the line "Reason for cancellation: {cancellationReason}" appears exactly once.
C3_ReasonLineOmittedEntirely ==
  last.called =>
    LET ls == Lines(last.out)
        s  == data.subscription
        r  == s.cancellationReason
        b  == Min(LineStartIdx(ls, BillingText))
    IN IF r = <<>>
       THEN /\ ~Contains(<<ReasonLabel>>, last.out)
            /\ ls[b - 1] = <<>>
            /\ ls[b - 2] = BodyLine(s)
       ELSE /\ Cardinality(LineIdx(ls, <<ReasonLabel>> \o r)) = 1
            /\ Cardinality(Occurrences(<<ReasonLabel>>, last.out)) = 1

\* C4: the lines before the blank line that precedes "Date:" are the name
\* line, the email line and one line per line of a non-empty address and per
\* non-empty phone: an empty address or phone renders no line.
C4_SenderBlockOmitsEmptyLines ==
  last.called =>
    LET ls == Lines(last.out)
        u  == data.user
        d  == Min(LineStartIdx(ls, "Date: "))
    IN /\ ls[d - 1] = <<>>
       /\ d - 2 = 2 + (IF u.address = <<>> THEN 0 ELSE Len(Lines(u.address)))
                    + (IF u.phone = <<>> THEN 0 ELSE 1)

\* C5: the letter contains the addendum of the request's tone and the
\* addendum of no other tone; a Formal letter contains none of the three.
C5_ToneExclusive ==
  last.called =>
    \A t \in Tone \ {FORMAL} :
      Contains(<<AddendumOf(t)>>, last.out) <=> (t = data.tone)

C5_Witness ==
  /\ last.called
  /\ data.tone = DIRECT
  /\ Contains(<<DirectText>>, last.out)

\* C6: the line after the billing instruction is the tone's addendum, with no
\* blank line between them, and the Formal letter of the same request is this
\* letter with the addendum line removed, every other line identical; a
\* Formal letter has a blank line after the billing instruction.
C6_AddendumFollowsBilling ==
  last.called =>
    LET ls     == Lines(last.out)
        formal == Lines(GetTemplateLetter([data EXCEPT !.tone = FORMAL], last.at))
        b      == Min(LineStartIdx(ls, BillingText))
    IN /\ ls[b] = <<BillingText>>
       /\ IF data.tone = FORMAL
          THEN ls[b + 1] = <<>> /\ ls = formal
          ELSE /\ ls[b + 1] = <<AddendumOf(data.tone)>>
               /\ RemoveAt(ls, b + 1) = formal

C6_Witness ==
  /\ last.called
  /\ data.tone = FRIENDLY
  /\ data.subscription.cancellationReason # <<>>
  /\ Len(Lines(last.out)) =
       Len(Lines(GetTemplateLetter([data EXCEPT !.tone = FORMAL], last.at))) + 1

\* C7: the letter has one "Account Number:" line; it reads "Account Number:
\* N/A" when accountNumber is empty and otherwise "Account Number: " followed
\* by the accountNumber alone, without the text N/A.
C7_AccountNumberLine ==
  last.called =>
    LET ls == Lines(last.out)
        a  == data.subscription.accountNumber
        i  == LineStartIdx(ls, "Account Number: ")
    IN /\ Cardinality(i) = 1
       /\ \A k \in i :
            IF a = <<>>
            THEN ls[k] = <<"Account Number: ", "N/A">>
            ELSE ls[k] = <<"Account Number: ">> \o a /\ ~Contains(<<"N/A">>, ls[k])

C7_Witness ==
  /\ last.called
  /\ data.subscription.accountNumber = <<>>
  /\ Contains(<<"Account Number: ", "N/A", NL>>, last.out)

\* C8: the sections of the letter come in the fixed order: sender block,
\* blank line, date line, blank line, subject line, account line, salutation,
\* body paragraph, optional reason line, billing instruction with addendum,
\* thanks; the last three lines are "Sincerely,", a blank line and fullName.
C8_SectionOrder ==
  last.called =>
    LET ls  == Lines(last.out)
        n   == Len(ls)
        u   == data.user
        s   == data.subscription
        d   == Min(LineStartIdx(ls, "Date: "))
        sal == LineIdx(ls, SalutationLine(s))
        bod == LineIdx(ls, BodyLine(s))
        rea == LineStartIdx(ls, ReasonLabel)
        bil == LineStartIdx(ls, BillingText)
        tha == LineIdx(ls, <<ThanksText>>)
    IN /\ SubSeq(ls, 1, d - 2) =
            Lines(u.fullName \o <<NL>> \o u.address \o <<NL>> \o u.email \o <<NL>> \o u.phone)
       /\ ls[d - 1] = <<>>
       /\ ls[d] = <<"Date: ">> \o ToLocaleDateString(last.at)
       /\ ls[d + 1] = <<>>
       /\ ls[d + 2] = <<"RE: Cancellation of ">> \o s.serviceName \o <<" Subscription">>
       /\ ls[d + 3][1] = "Account Number: "
       /\ Cardinality(sal) = 1 /\ Cardinality(bod) = 1
       /\ Cardinality(bil) = 1 /\ Cardinality(tha) = 1
       /\ Cardinality(rea) = (IF s.cancellationReason = <<>> THEN 0 ELSE 1)
       /\ \A i \in sal, j \in bod, k \in bil, l \in tha :
            /\ d + 3 < i /\ i < j /\ j < k /\ k < l /\ l < n - 2
            /\ \A r \in rea : j < r /\ r < k
            /\ data.tone # FORMAL => ls[k + 1] = <<AddendumOf(data.tone)>> /\ k + 1 < l
       /\ ls[n - 2] = <<"Sincerely,">>
       /\ ls[n - 1] = <<>>
       /\ ls[n] = u.fullName

C8_Witness ==
  /\ last.called
  /\ data.user.fullName # <<>>
  /\ data.user.address # <<>>
  /\ data.subscription.cancellationReason # <<>>
  /\ data.tone = FIRM
  /\ Lines(last.out)[Len(Lines(last.out))] = data.user.fullName

C11_LatestFetchShown ==
  (inflight = {} /\ calls # <<>>) =>
    \E k \in 1..Len(responses) :
      /\ responses[k].call = Len(calls)
      /\ suggestions = responses[k].value

====
